---- MODULE Spec2Model ----
(***************************************************************************)
(* Baseline extraction of segmentation/network.py (extract_baselines):     *)
(* connected components of a label mask -> component descriptors ->        *)
(* pairwise distance matrix -> DBSCAN on the precomputed matrix -> pixel   *)
(* groups per cluster label -> one sample per column (normalize).          *)
(*                                                                         *)
(* A pixel is <<row, column>>; Python's index 0 is index 1 here, so        *)
(* cc_left[0] (row) is cc_left[1] and cc_left[1] (column) is cc_left[2].   *)
(* Three specifications share the variables and the actions:               *)
(*   Spec          the whole function, started from a label mask;          *)
(*   SpecMatrix    calculate_distance_matrix and DBSCAN, started from a    *)
(*                 list of descriptors (lines 331-381);                    *)
(*   SpecNormalize normalize_connected_components, started from a list of  *)
(*                 clusters of pixels (lines 401-418).                     *)
(***************************************************************************)
EXTENDS Integers, Sequences, FiniteSets, TLC

VARIABLES pc, image_map, baseline_ccs, baseline_border_ccs, all_ccs,
          matrix, labels, ccs, error

vars == <<pc, image_map, baseline_ccs, baseline_border_ccs, all_ccs,
          matrix, labels, ccs, error>>

----------------------------------------------------------------------------
(* Bounds of the inputs *)

\* most horizontal runs painted into one input mask (Spec)
MaxRuns == 2
\* most descriptors in one input list (SpecMatrix)
MaxCcs == 2
\* most pixels in the clusters handed to the normaliser (SpecNormalize)
MaxPts == 3
\* largest row and column of those pixels (SpecNormalize)
MaxRow == 2
MaxCol == 2

----------------------------------------------------------------------------
(* Program constants *)

base_line_index == 1
base_line_border_index == 2
\* len(x[0]) > 10 in the two list comprehensions
min_size == 10
length == 50
vertical_distance == 10
penalty_factor == 5
other_type_factor == 100
sentinel == 99999
eps == 50
min_samples == 1

----------------------------------------------------------------------------
(* Helpers *)

abs(n) == IF n < 0 THEN -n ELSE n

\* the order of np.where and of scipy's scan: by row, then by column
row_major_less(p, q) == p[1] < q[1] \/ (p[1] = q[1] /\ p[2] < q[2])

first_pixel(S) == CHOOSE p \in S : \A q \in S : q = p \/ row_major_less(p, q)

RECURSIVE where(_)
\* np.where(mask): the pixels of S as a sequence in row-major order
where(S) ==
  IF S = {} THEN <<>>
  ELSE LET p == first_pixel(S) IN <<p>> \o where(S \ {p})

RECURSIVE SeqSum(_)
SeqSum(s) == IF s = <<>> THEN 0 ELSE Head(s) + SeqSum(Tail(s))

RECURSIVE Flatten(_)
Flatten(ss) == IF ss = <<>> THEN <<>> ELSE Head(ss) \o Flatten(Tail(ss))

Range(s) == {s[i] : i \in 1..Len(s)}

RECURSIVE SortedSeq(_)
\* sorted(S) of a set of integers
SortedSeq(S) ==
  IF S = {} THEN <<>>
  ELSE LET m == CHOOSE a \in S : \A b \in S : a <= b IN <<m>> \o SortedSeq(S \ {m})

----------------------------------------------------------------------------
(* scipy.ndimage label: 4-connected components, numbered in scan order *)

adjacent(p, q) == abs(p[1] - q[1]) + abs(p[2] - q[2]) = 1

RECURSIVE flood(_, _)
flood(comp, rest) ==
  LET more == {p \in rest : \E q \in comp : adjacent(p, q)}
  IN IF more = {} THEN comp ELSE flood(comp \cup more, rest \ more)

RECURSIVE label(_)
\* the components of the pixel set S, each as np.where gives it
label(S) ==
  IF S = {} THEN <<>>
  ELSE LET s == first_pixel(S)
           c == flood({s}, S \ {s})
       IN <<where(c)>> \o label(S \ c)

\* np.where(image_map == index)
pixels_of(map, index) == {p \in DOMAIN map : map[p] = index}

----------------------------------------------------------------------------
(* class Cc_with_type *)

min_col(cc) == CHOOSE c \in {cc[i][2] : i \in 1..Len(cc)} :
                 \A i \in 1..Len(cc) : c <= cc[i][2]
max_col(cc) == CHOOSE c \in {cc[i][2] : i \in 1..Len(cc)} :
                 \A i \in 1..Len(cc) : c >= cc[i][2]

\* cc[..][np.where(cc[1] == c)[0]][0]: the first pixel of cc in column c
first_in_col(cc, c) ==
  cc[CHOOSE i \in 1..Len(cc) : cc[i][2] = c /\ \A j \in 1..(i - 1) : cc[j][2] # c]

Cc_with_type(cc, type) ==
  [cc |-> cc,
   cc_left |-> first_in_col(cc, min_col(cc)),
   cc_right |-> first_in_col(cc, max_col(cc)),
   type |-> type]

\* keeps with a fault: a component of exactly min_size pixels survives
keeps_at_least(cc) == Len(cc) >= min_size

keeps(cc) == Len(cc) > min_size

described(components, type) ==
  LET kept == SelectSeq(components, keeps)
  IN [i \in 1..Len(kept) |-> Cc_with_type(kept[i], type)]

----------------------------------------------------------------------------
(* calculate_distance_matrix *)

\* same_type with a fault: the factor for different types is 10
same_type_weak(x, y) == IF x.type = y.type THEN 1 ELSE 10

same_type(x, y) == IF x.type = y.type THEN 1 ELSE other_type_factor

\* left with a fault: a span that only touches counts as lying to the left
left_or_touching(x, y) == x.cc_left[2] >= y.cc_right[2]

left(x, y) == x.cc_left[2] > y.cc_right[2]

right(x, y) == x.cc_right[2] < y.cc_left[2]

\* v_distance with a fault: the band does not shrink with the gap
v_distance_unscaled(distance) == <<vertical_distance, 1>>

\* v_distance as the fraction <<numerator, denominator>>:
\* vertical_distance / 2 when distance < 1 / 5 * length (= 10.0),
\* vertical_distance * 2 / 3 when distance < length, else vertical_distance
v_distance(distance) ==
  IF 5 * distance < length THEN <<vertical_distance, 2>>
  ELSE IF distance < length THEN <<vertical_distance * 2, 3>>
  ELSE <<vertical_distance, 1>>

\* not_within with a fault: the `not` is lost
within(offset, v) == offset * v[2] < v[1]

\* not abs(..) < v_distance
not_within(offset, v) == ~(offset * v[2] < v[1])

\* raw_distance with a fault: the right-of case tests one offset, as the
\* left-of case does
raw_distance_one_offset(x, y) ==
  IF left(x, y)
  THEN LET distance == x.cc_left[2] - y.cc_right[2]
           v == v_distance(distance)
       IN IF not_within(abs(x.cc_left[1] - y.cc_right[1]), v)
          THEN distance + abs(x.cc_left[1] - y.cc_right[1]) * penalty_factor
          ELSE distance
  ELSE IF right(x, y)
  THEN LET distance == y.cc_left[2] - x.cc_right[2]
           v == v_distance(distance)
       IN IF not_within(abs(x.cc_right[1] - y.cc_left[1]), v)
          THEN distance + abs(y.cc_left[1] - x.cc_right[1]) * penalty_factor
          ELSE distance
  ELSE sentinel

\* the value of `distance` at line 372, before the type factor
raw_distance(x, y) ==
  IF left(x, y)
  THEN LET distance == x.cc_left[2] - y.cc_right[2]
           v == v_distance(distance)
       IN IF not_within(abs(x.cc_left[1] - y.cc_right[1]), v)
          THEN distance + abs(x.cc_left[1] - y.cc_right[1]) * penalty_factor
          ELSE distance
  ELSE IF right(x, y)
  THEN LET distance == y.cc_left[2] - x.cc_right[2]
           v == v_distance(distance)
       IN IF not_within(abs(x.cc_left[1] - y.cc_right[1]), v)
             /\ not_within(abs(x.cc_right[1] - y.cc_left[1]), v)
          THEN distance + abs(y.cc_left[1] - x.cc_right[1]) * penalty_factor
          ELSE distance
  ELSE sentinel

\* `x is y` holds exactly when ind1 = ind2: every descriptor is its own object
calculate_distance_matrix(descs) ==
  [ind1 \in 1..Len(descs) |->
    [ind2 \in 1..Len(descs) |->
      IF ind1 = ind2 THEN 0
      ELSE raw_distance(descs[ind1], descs[ind2])
             * same_type(descs[ind1], descs[ind2])]]

----------------------------------------------------------------------------
(* DBSCAN(eps=50, min_samples=1, metric="precomputed").fit(matrix) *)

\* radius neighbours of row i of the precomputed matrix
neighborhood(m, i) == {j \in 1..Len(m) : m[i][j] <= eps}

\* is_core with a fault: a core point needs more than min_samples neighbours
is_core_strict(m, i) == Cardinality(neighborhood(m, i)) > min_samples

is_core(m, i) == Cardinality(neighborhood(m, i)) >= min_samples

RECURSIVE grow(_, _, _)
\* the depth-first expansion of one cluster: C is labelled so far, free are
\* the points without a label when the cluster was started
grow(m, C, free) ==
  LET more == {v \in free \ C : \E u \in C : is_core(m, u) /\ v \in neighborhood(m, u)}
  IN IF more = {} THEN C ELSE grow(m, C \cup more, free)

RECURSIVE dbscan_inner(_, _, _, _)
dbscan_inner(m, i, label_num, labs) ==
  IF i > Len(m) THEN labs
  ELSE IF labs[i] # -1 \/ ~is_core(m, i) THEN dbscan_inner(m, i + 1, label_num, labs)
  ELSE LET C == grow(m, {i}, {v \in 1..Len(m) : labs[v] = -1})
       IN dbscan_inner(m, i + 1, label_num + 1,
                       [v \in 1..Len(m) |-> IF v \in C THEN label_num ELSE labs[v]])

\* labels_ of the fit; -1 is the noise label
DBSCAN(m) == dbscan_inner(m, 1, 0, [i \in 1..Len(m) |-> -1])

----------------------------------------------------------------------------
(* lines 386-394: the pixels of every cluster label *)

\* a numpy value: a 1-D array carries its elements, an element of it is a scalar
ndarray(s) == [ndim |-> 1, data |-> s]
item(a, i) == [ndim |-> a.ndim - 1, data |-> a.data[i]]
iterable(v) == v.ndim > 0

\* np.unique(t.labels_)
unique(labs) == SortedSeq(Range(labs))

\* np.where(t.labels_ == x)[0]
members(labs, x) == SortedSeq({i \in 1..Len(labs) : labs[i] = x})

\* the tuple appended to ccs at line 392 for the label x
concatenated(labs, descs, x) ==
  LET ind == members(labs, x)
      pixels == Flatten([d \in 1..Len(ind) |-> descs[ind[d]].cc])
  IN <<ndarray([n \in 1..Len(pixels) |-> pixels[n][1]]),
       ndarray([n \in 1..Len(pixels) |-> pixels[n][2]])>>

grouped(labs, descs) ==
  LET u == unique(labs) IN [k \in 1..Len(u) |-> concatenated(labs, descs, u[k])]

\* the two arguments of zip at line 394: x[1][0] and x[1][1]
zip_arguments(x) == <<item(x[2], 1), item(x[2], 2)>>

zip(a, b) ==
  LET n == IF Len(a.data) < Len(b.data) THEN Len(a.data) ELSE Len(b.data)
  IN [i \in 1..n |-> <<a.data[i], b.data[i]>>]

----------------------------------------------------------------------------
(* normalize_connected_components *)

\* cc_dict[x]: the rows of the pixels of cc in column x, in the order of cc
cc_dict(cc, x) ==
  LET at == SortedSeq({i \in 1..Len(cc) : cc[i][2] = x})
  IN [n \in 1..Len(at) |-> cc[at[n]][1]]

\* sorted_keys with a fault: the keys in the order of their insertion into cc_dict
insertion_keys(cc) ==
  LET firsts == SortedSeq({i \in 1..Len(cc) : \A j \in 1..(i - 1) : cc[j][2] # cc[i][2]})
  IN [n \in 1..Len(firsts) |-> cc[firsts[n]][2]]

\* sorted(cc_dict.keys())
sorted_keys(cc) == SortedSeq({cc[i][2] : i \in 1..Len(cc)})

\* floor_mean_half with a fault: int(np.mean(value)), the + 0.5 is lost
truncated_mean(value) == SeqSum(value) \div Len(value)

\* int(np.floor(np.mean(value) + 0.5))
floor_mean_half(value) == (2 * SeqSum(value) + Len(value)) \div (2 * Len(value))

normalize(point_list) ==
  [k \in 1..Len(point_list) |->
    LET cc == point_list[k]
        keys == sorted_keys(cc)
    IN [n \in 1..Len(keys) |-> <<floor_mean_half(cc_dict(cc, keys[n])), keys[n]>>]]

normalize_connected_components(cc_list) == normalize(cc_list)

----------------------------------------------------------------------------
(* Inputs *)

\* Spec: a mask is painted from at most MaxRuns horizontal runs of one class
\* each, no pixel painted twice; every other pixel is background
RunRows == {10, 11, 12}
RunCols == {0, 20}
RunLens == {3, 10, 11}

Runs == [index : {base_line_index, base_line_border_index},
         row : RunRows, col : RunCols, len : RunLens]

run_pixels(r) == {<<r.row, c>> : c \in r.col..(r.col + r.len - 1)}

overlapping(r, t) ==
  r.row = t.row /\ r.col < t.col + t.len /\ t.col < r.col + r.len

\* a key that orders the runs, so that a set of runs is listed once
run_key(r) == ((r.index * 100 + r.row) * 100 + r.col) * 100 + r.len

run_list(f) ==
  \A i, j \in DOMAIN f : i < j => run_key(f[i]) < run_key(f[j]) /\ ~overlapping(f[i], f[j])

painted(f) ==
  [p \in UNION {run_pixels(f[i]) : i \in DOMAIN f} |->
     f[CHOOSE i \in DOMAIN f : p \in run_pixels(f[i])].index]

\* SpecMatrix: descriptors as calculate_distance_matrix and DBSCAN read them
\* (cc_left, cc_right, type; the pixels in between are not read there)
Spans == {<<0, 1>>, <<10, 11>>, <<11, 12>>, <<61, 62>>, <<63, 64>>}
RowPairs == {<<0, 0>>, <<4, 4>>, <<5, 5>>, <<10, 10>>,
             <<0, 4>>, <<4, 0>>, <<0, 5>>, <<5, 0>>, <<0, 10>>, <<10, 0>>}

Descriptors ==
  {[cc_left |-> <<rp[1], sp[1]>>, cc_right |-> <<rp[2], sp[2]>>, type |-> t] :
     rp \in RowPairs, sp \in Spans, t \in {"baseline", "baseline_border"}}

\* two components of one mask share no pixel, and two components of the same
\* class do not touch; the baseline descriptors come first (line 329)
compatible(x, y) ==
  /\ {x.cc_left, x.cc_right} \cap {y.cc_left, y.cc_right} = {}
  /\ x.type = y.type =>
       \A p \in {x.cc_left, x.cc_right}, q \in {y.cc_left, y.cc_right} : ~adjacent(p, q)

descriptor_list(f) ==
  \A i, j \in DOMAIN f : i < j =>
    /\ compatible(f[i], f[j])
    /\ f[i].type = "baseline_border" => f[j].type = "baseline_border"

\* SpecNormalize: at most MaxPts distinct pixels, in any order, split into one
\* or two clusters
Pixels == (0..MaxRow) \X (0..MaxCol)

pixel_list(f) == \A i, j \in DOMAIN f : i < j => f[i] # f[j]

\* the pixels of f as one cluster (k = 0) or as two, split after the k-th
clusters(f, k) ==
  IF k = 0 THEN <<f>>
  ELSE <<SubSeq(f, 1, k), SubSeq(f, k + 1, Len(f))>>

----------
(* State machine *)

Blank ==
  /\ baseline_ccs = <<>>
  /\ baseline_border_ccs = <<>>
  /\ all_ccs = <<>>
  /\ matrix = <<>>
  /\ labels = <<>>
  /\ ccs = <<>>
  /\ error = "none"

\* the call extract_baselines(image_map)
Init ==
  /\ pc = "start"
  /\ \E n \in 0..MaxRuns : \E f \in [1..n -> Runs] :
       run_list(f) /\ image_map = painted(f)
  /\ Blank

\* lines 295-309
LabelComponents ==
  /\ pc = "start"
  /\ baseline_ccs' = label(pixels_of(image_map, base_line_index))
  /\ baseline_border_ccs' = label(pixels_of(image_map, base_line_border_index))
  /\ pc' = "labelled"
  /\ UNCHANGED <<image_map, all_ccs, matrix, labels, ccs, error>>

\* lines 325-329
Describe ==
  /\ pc = "labelled"
  /\ all_ccs' = described(baseline_ccs, "baseline")
                  \o described(baseline_border_ccs, "baseline_border")
  /\ pc' = "described"
  /\ UNCHANGED <<image_map, baseline_ccs, baseline_border_ccs, matrix, labels, ccs, error>>

\* line 375
CalculateDistanceMatrix ==
  /\ pc = "described"
  /\ matrix' = calculate_distance_matrix(all_ccs)
  /\ pc' = "matrix"
  /\ UNCHANGED <<image_map, baseline_ccs, baseline_border_ccs, all_ccs, labels, ccs, error>>

\* line 381; fit validates its input and raises ValueError for an array
\* with 0 samples
Cluster ==
  /\ pc = "matrix"
  /\ IF Len(matrix) = 0
     THEN pc' = "error" /\ error' = "ValueError" /\ UNCHANGED labels
     ELSE pc' = "clustered" /\ labels' = DBSCAN(matrix) /\ UNCHANGED error
  /\ UNCHANGED <<image_map, baseline_ccs, baseline_border_ccs, all_ccs, matrix, ccs>>

\* lines 386-392
GroupClusters ==
  /\ pc = "clustered"
  /\ ccs' = grouped(labels, all_ccs)
  /\ pc' = "grouped"
  /\ UNCHANGED <<image_map, baseline_ccs, baseline_border_ccs, all_ccs, matrix, labels, error>>

\* line 394; zip raises TypeError for an argument that is not iterable
ZipClusters ==
  /\ pc = "grouped"
  /\ IF \E k \in 1..Len(ccs) : \E a \in Range(zip_arguments(ccs[k])) : ~iterable(a)
     THEN pc' = "error" /\ error' = "TypeError" /\ UNCHANGED ccs
     ELSE /\ pc' = "zipped"
          /\ ccs' = [k \in 1..Len(ccs) |->
                       zip(zip_arguments(ccs[k])[1], zip_arguments(ccs[k])[2])]
          /\ UNCHANGED error
  /\ UNCHANGED <<image_map, baseline_ccs, baseline_border_ccs, all_ccs, matrix, labels>>

\* line 418
NormalizeConnectedComponents ==
  /\ pc = "zipped"
  /\ ccs' = normalize_connected_components(ccs)
  /\ pc' = "normalized"
  /\ UNCHANGED <<image_map, baseline_ccs, baseline_border_ccs, all_ccs, matrix, labels, error>>

\* line 418 is not in Next: line 381 or line 394 raises on every input
Next ==
  \/ LabelComponents
  \/ Describe
  \/ CalculateDistanceMatrix
  \/ Cluster
  \/ GroupClusters
  \/ ZipClusters

Spec == Init /\ [][Next]_vars

\* lines 331-381 on a list of descriptors
InitMatrix ==
  /\ pc = "described"
  /\ image_map = <<>>
  /\ baseline_ccs = <<>>
  /\ baseline_border_ccs = <<>>
  /\ \E n \in 0..MaxCcs : \E f \in [1..n -> Descriptors] :
       descriptor_list(f) /\ all_ccs = f
  /\ matrix = <<>>
  /\ labels = <<>>
  /\ ccs = <<>>
  /\ error = "none"

NextMatrix ==
  \/ CalculateDistanceMatrix
  \/ Cluster

SpecMatrix == InitMatrix /\ [][NextMatrix]_vars

\* lines 401-418 on a list of clusters of (row, column) pixels
InitNormalize ==
  /\ pc = "zipped"
  /\ image_map = <<>>
  /\ baseline_ccs = <<>>
  /\ baseline_border_ccs = <<>>
  /\ all_ccs = <<>>
  /\ matrix = <<>>
  /\ labels = <<>>
  /\ \E n \in 1..MaxPts : \E f \in [1..n -> Pixels] : \E k \in 0..(n - 1) :
       pixel_list(f) /\ ccs = clusters(f, k)
  /\ error = "none"

NextNormalize == NormalizeConnectedComponents

SpecNormalize == InitNormalize /\ [][NextNormalize]_vars

----------------------------------------------------------------------------
(* The distance matrix (SpecMatrix) *)

has_matrix == pc \in {"matrix", "clustered", "error"} /\ Len(matrix) = Len(all_ccs)

\* ordered pairs of distinct descriptor indices
pairs == {ij \in (1..Len(all_ccs)) \X (1..Len(all_ccs)) : ij[1] # ij[2]}

\* x starts strictly after y ends (the left-of case), x ends strictly before
\* y starts (the right-of case), neither (overlapping horizontal spans)
is_left_of(i, j) == all_ccs[i].cc_left[2] > all_ccs[j].cc_right[2]
is_right_of(i, j) == all_ccs[i].cc_right[2] < all_ccs[j].cc_left[2]
spans_overlap(i, j) == ~is_left_of(i, j) /\ ~is_right_of(i, j)

type_factor(i, j) == IF all_ccs[i].type = all_ccs[j].type THEN 1 ELSE 100

\* the left-of gap and vertical offset of the ordered pair (i, j)
gap(i, j) == all_ccs[i].cc_left[2] - all_ccs[j].cc_right[2]
offset(i, j) == abs(all_ccs[i].cc_left[1] - all_ccs[j].cc_right[1])

\* C1: the matrix is symmetric (entry (i,j) equals entry (j,i)) and every
\* diagonal entry is 0, for any list of descriptors.
C1_SymmetricZeroDiagonal ==
  has_matrix =>
    \A i, j \in 1..Len(matrix) :
      /\ matrix[i][j] = matrix[j][i]
      /\ matrix[i][i] = 0

\* C2 as stated: two distinct descriptors with overlapping horizontal spans
\* have the entry 99999 in both directions, whatever their types.
C2_SentinelRegardlessOfType ==
  has_matrix =>
    \A ij \in pairs :
      spans_overlap(ij[1], ij[2]) =>
        matrix[ij[1]][ij[2]] = 99999 /\ matrix[ij[2]][ij[1]] = 99999

\* C2 as amended: two distinct descriptors with overlapping horizontal spans
\* have, in both directions, the entry 99999 times the type factor: 99999 for
\* the same type, 9999900 for different types.
C2_SentinelTimesTypeFactor ==
  has_matrix =>
    \A ij \in pairs :
      spans_overlap(ij[1], ij[2]) =>
        /\ matrix[ij[1]][ij[2]] = 99999 * type_factor(ij[1], ij[2])
        /\ matrix[ij[2]][ij[1]] = 99999 * type_factor(ij[1], ij[2])

C2_Witness ==
  /\ has_matrix
  /\ \E ij \in pairs :
       /\ spans_overlap(ij[1], ij[2])
       /\ all_ccs[ij[1]].type # all_ccs[ij[2]].type
       /\ all_ccs[ij[1]].cc_left[2] = all_ccs[ij[2]].cc_right[2]
       /\ matrix[ij[1]][ij[2]] = 9999900

\* C3 as stated: x left-of y with gap g < length/5 = 10 and vertical offset
\* below 5 has the entry g for the pair (x, y).
C3_GapUnpenalised ==
  has_matrix =>
    \A ij \in pairs :
      (is_left_of(ij[1], ij[2]) /\ gap(ij[1], ij[2]) < 10 /\ offset(ij[1], ij[2]) < 5) =>
        matrix[ij[1]][ij[2]] = gap(ij[1], ij[2])

\* C3 as amended: x left-of y with gap g < 10 and vertical offset below 5 has
\* the entry g times the type factor (g for the same type, 100 g for
\* different types): no penalty is added.
C3_GapTimesTypeFactor ==
  has_matrix =>
    \A ij \in pairs :
      (is_left_of(ij[1], ij[2]) /\ gap(ij[1], ij[2]) < 10 /\ offset(ij[1], ij[2]) < 5) =>
        matrix[ij[1]][ij[2]] = gap(ij[1], ij[2]) * type_factor(ij[1], ij[2])

C3_Witness ==
  /\ has_matrix
  /\ \E ij \in pairs :
       /\ is_left_of(ij[1], ij[2])
       /\ gap(ij[1], ij[2]) = 9
       /\ offset(ij[1], ij[2]) = 4
       /\ all_ccs[ij[1]].type # all_ccs[ij[2]].type
       /\ matrix[ij[1]][ij[2]] = 900

\* the tolerance of C10 as a fraction: 10/2 for a gap below 10, 20/3 for a
\* gap from 10 to 49, 10 from 50 on
tolerance(g) == IF g < 10 THEN <<10, 2>> ELSE IF g < 50 THEN <<20, 3>> ELSE <<10, 1>>

\* C10 as stated: in the left-of case the entry is (gap + penalty) times the
\* type factor, with penalty 5 * offset when the vertical offset exceeds the
\* tolerance and 0 otherwise, an offset equal to the tolerance included.
C10_PenaltyAboveTolerance ==
  has_matrix =>
    \A ij \in pairs :
      is_left_of(ij[1], ij[2]) =>
        LET g == gap(ij[1], ij[2])
            v == offset(ij[1], ij[2])
            t == tolerance(g)
            penalty == IF v * t[2] > t[1] THEN 5 * v ELSE 0
        IN matrix[ij[1]][ij[2]] = (g + penalty) * type_factor(ij[1], ij[2])

\* C10 as amended: in the left-of case the entry is (gap + penalty) times the
\* type factor, with penalty 5 * offset when the vertical offset is at least
\* the tolerance (an offset equal to the tolerance is penalised) and 0 when
\* it is below the tolerance.
C10_PenaltyFromTolerance ==
  has_matrix =>
    \A ij \in pairs :
      is_left_of(ij[1], ij[2]) =>
        LET g == gap(ij[1], ij[2])
            v == offset(ij[1], ij[2])
            t == tolerance(g)
            penalty == IF v * t[2] >= t[1] THEN 5 * v ELSE 0
        IN matrix[ij[1]][ij[2]] = (g + penalty) * type_factor(ij[1], ij[2])

C10_Witness ==
  /\ has_matrix
  /\ \E ij \in pairs :
       /\ is_left_of(ij[1], ij[2])
       /\ gap(ij[1], ij[2]) = 9
       /\ offset(ij[1], ij[2]) = 5
       /\ all_ccs[ij[1]].type = all_ccs[ij[2]].type
       /\ matrix[ij[1]][ij[2]] = 34

----------------------------------------------------------------------------
(* Clustering (SpecMatrix) *)

\* the descriptor indices that carry the cluster label x
cluster_of(x) == {i \in 1..Len(labels) : labels[i] = x}

\* C9: with eps 50 and min_samples 1 every descriptor of a non-empty list
\* gets exactly one cluster label and never the noise label -1: the clusters
\* partition the descriptor indices.
C9_NoNoisePartition ==
  pc = "clustered" =>
    /\ Len(all_ccs) > 0
    /\ Len(labels) = Len(all_ccs)
    /\ \A i \in 1..Len(all_ccs) :
         /\ labels[i] # -1
         /\ Cardinality({x \in Range(labels) \ {-1} : i \in cluster_of(x)}) = 1
    /\ UNION {cluster_of(x) : x \in Range(labels) \ {-1}} = 1..Len(all_ccs)

C9_Witness ==
  /\ pc = "clustered"
  /\ Len(all_ccs) = 2
  /\ matrix[1][2] > 50
  /\ matrix[2][1] > 50
  /\ labels = <<0, 1>>

----------------------------------------------------------------------------
(* The whole function (Spec) *)

\* the connected components of both classes, as labelled
components == Range(baseline_ccs) \cup Range(baseline_border_ccs)

\* the pixels handed on to the stage the state is in
descriptor_pixels == UNION {Range(all_ccs[i].cc) : i \in 1..Len(all_ccs)}
cluster_pixels ==
  UNION {{<<ccs[k][1].data[n], ccs[k][2].data[n]>> : n \in 1..Len(ccs[k][1].data)} :
           k \in 1..Len(ccs)}

surviving_size(type) ==
  SeqSum([i \in 1..Len(all_ccs) |->
            IF all_ccs[i].type = type THEN Len(all_ccs[i].cc) ELSE 0])

\* C4: only components of more than 10 pixels become descriptors; a component
\* of at most 10 pixels gives no descriptor, no row or column of the matrix,
\* no cluster member and no pixel of a cluster, and the surviving sizes of a
\* class sum to at most the number of pixels of that class.
C4_SmallComponentsExcluded ==
  pc \notin {"start", "labelled"} =>
    /\ \A i \in 1..Len(all_ccs) : Len(all_ccs[i].cc) > 10 /\ all_ccs[i].cc \in components
    /\ \A c \in components : Len(c) <= 10 => Range(c) \cap descriptor_pixels = {}
    /\ Len(all_ccs) = Cardinality({c \in components : Len(c) > 10})
    /\ pc \in {"matrix", "clustered", "grouped", "error"} =>
         /\ Len(matrix) = Len(all_ccs)
         /\ \A i \in 1..Len(matrix) : Len(matrix[i]) = Len(all_ccs)
    /\ pc \in {"clustered", "grouped"} => Len(labels) = Len(all_ccs)
    /\ pc = "grouped" =>
         /\ cluster_pixels = descriptor_pixels
         /\ \A c \in components : Len(c) <= 10 => Range(c) \cap cluster_pixels = {}
    /\ surviving_size("baseline")
         <= Cardinality(pixels_of(image_map, base_line_index))
    /\ surviving_size("baseline_border")
         <= Cardinality(pixels_of(image_map, base_line_border_index))

C4_Witness ==
  /\ pc = "grouped"
  /\ \E c \in components : Len(c) = 3
  /\ Len(all_ccs) = 1
  /\ Len(matrix) = 1
  /\ Cardinality(cluster_pixels) = 11

\* the function has stopped: it raised, or it ran through line 418
stopped == pc \in {"error", "normalized"}

\* the pixels of the descriptors with the cluster label x, as line 392
\* concatenates them
label_pixels(x) ==
  LET ind == members(labels, x)
  IN Flatten([d \in 1..Len(ind) |-> all_ccs[ind[d]].cc])

\* C6: after clustering there is exactly one polyline per distinct cluster
\* label, computed from the pixels of exactly the descriptors with that
\* label; a single surviving component gives its own polyline.
C6_OnePolylinePerLabel ==
  (stopped /\ Len(all_ccs) > 0) =>
    /\ pc = "normalized"
    /\ Len(ccs) = Cardinality(Range(labels))
    /\ \A k \in 1..Len(ccs) :
         ccs[k] = normalize(<<label_pixels(unique(labels)[k])>>)[1]

\* the mask of C7: class 1 on row 10, columns 0-9, and on row 12, columns
\* 20-29; background elsewhere
two_segments ==
  [p \in {<<10, c>> : c \in 0..9} \cup {<<12, c>> : c \in 20..29} |-> 1]

\* C7: for the mask of two same-type components at row 10, columns 0-9, and
\* row 12, columns 20-29, the function returns exactly one polyline, which
\* spans the columns 0 to 29.
C7_TwoSegmentsOnePolyline ==
  (stopped /\ image_map = two_segments) =>
    /\ pc = "normalized"
    /\ Len(ccs) = 1
    /\ {ccs[1][n][2] : n \in 1..Len(ccs[1])} \subseteq 0..29
    /\ {0, 29} \subseteq {ccs[1][n][2] : n \in 1..Len(ccs[1])}

\* C8: for a mask without a pixel of either class the function runs through
\* every stage without raising and its result is the empty list.
C8_EmptyMaskEmptyResult ==
  (stopped /\ DOMAIN image_map = {}) =>
    /\ pc = "normalized"
    /\ error = "none"
    /\ ccs = <<>>

----------------------------------------------------------------------------
(* The curve normaliser (SpecNormalize) *)

columns_of(cc) == {cc[n][2] : n \in 1..Len(cc)}

\* C5: the polyline of every cluster is strictly increasing in its column
\* and has exactly one sample for every distinct column of the cluster's
\* pixels, and none for another column.
C5_OneSamplePerColumn ==
  [][(pc = "zipped" /\ pc' = "normalized") =>
       /\ Len(ccs') = Len(ccs)
       /\ \A k \in 1..Len(ccs) :
            /\ \A n \in 1..(Len(ccs'[k]) - 1) : ccs'[k][n][2] < ccs'[k][n + 1][2]
            /\ columns_of(ccs'[k]) = columns_of(ccs[k])
            /\ Len(ccs'[k]) = Cardinality(columns_of(ccs[k]))]_vars

C5_Witness ==
  /\ pc = "normalized"
  /\ Len(ccs) = 2
  /\ Len(ccs[1]) = 2
  /\ ccs[1][1][2] = 0
  /\ ccs[1][2][2] = 2

----------------------------------------------------------------------------
(* The right-of case of the distance matrix (SpecMatrix) *)

\* the right-of gap of the ordered pair (i, j) and its two vertical offsets:
\* x.leftExtreme to y.rightExtreme and x.rightExtreme to y.leftExtreme
right_gap(i, j) == all_ccs[j].cc_left[2] - all_ccs[i].cc_right[2]
outer_offset(i, j) == abs(all_ccs[i].cc_left[1] - all_ccs[j].cc_right[1])
inner_offset(i, j) == abs(all_ccs[i].cc_right[1] - all_ccs[j].cc_left[1])

\* C11 as stated: in the right-of case the entry is (gap + penalty) times the
\* type factor, with the tolerance of the left-of case and the penalty
\* 5 * |y.left.row - x.right.row| only when both vertical offsets exceed the
\* tolerance; if either is within the tolerance, equal to it included, the
\* gap is unpenalised.
C11_PenaltyBothAboveTolerance ==
  has_matrix =>
    \A ij \in pairs :
      is_right_of(ij[1], ij[2]) =>
        LET g == right_gap(ij[1], ij[2])
            t == tolerance(g)
            a == outer_offset(ij[1], ij[2])
            b == inner_offset(ij[1], ij[2])
            penalty == IF a * t[2] > t[1] /\ b * t[2] > t[1] THEN 5 * b ELSE 0
        IN matrix[ij[1]][ij[2]] = (g + penalty) * type_factor(ij[1], ij[2])

\* C11 as amended: in the right-of case the entry is (gap + penalty) times
\* the type factor, with the penalty 5 * |y.left.row - x.right.row| only when
\* both vertical offsets are at least the tolerance (an offset equal to the
\* tolerance counts as outside it); if either is below the tolerance the gap
\* is unpenalised.
C11_PenaltyBothFromTolerance ==
  has_matrix =>
    \A ij \in pairs :
      is_right_of(ij[1], ij[2]) =>
        LET g == right_gap(ij[1], ij[2])
            t == tolerance(g)
            a == outer_offset(ij[1], ij[2])
            b == inner_offset(ij[1], ij[2])
            penalty == IF a * t[2] >= t[1] /\ b * t[2] >= t[1] THEN 5 * b ELSE 0
        IN matrix[ij[1]][ij[2]] = (g + penalty) * type_factor(ij[1], ij[2])

\* a right-of pair whose inner offset is outside the tolerance and whose outer
\* offset is inside it: the gap stays unpenalised
C11_Witness ==
  /\ has_matrix
  /\ \E ij \in pairs :
       /\ is_right_of(ij[1], ij[2])
       /\ right_gap(ij[1], ij[2]) = 9
       /\ inner_offset(ij[1], ij[2]) = 10
       /\ outer_offset(ij[1], ij[2]) = 0
       /\ all_ccs[ij[1]].type = all_ccs[ij[2]].type
       /\ matrix[ij[1]][ij[2]] = 9

----------------------------------------------------------------------------
(* The vertical position of a sample (SpecNormalize) *)

RECURSIVE SetSum(_)
SetSum(S) == IF S = {} THEN 0 ELSE LET a == CHOOSE b \in S : TRUE IN a + SetSum(S \ {a})

\* the rows of the pixels of the cluster cc in column c (the pixels of a
\* cluster are distinct, so the rows of one column are)
rows_in(cc, c) == {cc[n][1] : n \in {m \in 1..Len(cc) : cc[m][2] = c}}

\* C12: for every distinct column of a cluster the emitted vertical position
\* is floor(mean(rows) + 0.5), the mean row rounded half up: with the sum S
\* and the count n of the rows it is floor((2S + n) / (2n)), that is the
\* integer v with v <= S/n + 1/2 < v + 1, and it lies between the smallest
\* and the largest row of that column.
C12_RoundHalfUpMean ==
  [][(pc = "zipped" /\ pc' = "normalized") =>
       \A k \in 1..Len(ccs) :
         \A i \in 1..Len(ccs'[k]) :
           LET v == ccs'[k][i][1]
               rows == rows_in(ccs[k], ccs'[k][i][2])
               S == SetSum(rows)
               n == Cardinality(rows)
           IN /\ n > 0
              /\ v = (2 * S + n) \div (2 * n)
              /\ 2 * n * v <= 2 * S + n
              /\ 2 * S + n < 2 * n * (v + 1)
              /\ \A r \in rows : \E lo, hi \in rows : lo <= v /\ v <= hi]_vars

\* two clusters that both give the sample (1, 1): their pixels are distinct,
\* so one of them has no pixel in row 1 and its sample is a mean of other rows
C12_Witness ==
  /\ pc = "normalized"
  /\ ccs = << << <<1, 1>> >>, << <<1, 1>> >> >>

----------------------------------------------------------------------------
(* The types of a cluster (SpecMatrix) *)

\* C13: every distance between two descriptors of different type is at least
\* 100, above eps = 50, so no two descriptors of different type are
\* eps-neighbours and no cluster holds both a 'baseline' and a
\* 'baseline_border' descriptor.
C13_ClustersOfOneType ==
  has_matrix =>
    /\ \A ij \in pairs :
         all_ccs[ij[1]].type # all_ccs[ij[2]].type =>
           matrix[ij[1]][ij[2]] >= 100 /\ matrix[ij[1]][ij[2]] > 50
    /\ pc = "clustered" =>
         \A i, j \in 1..Len(labels) :
           labels[i] = labels[j] => all_ccs[i].type = all_ccs[j].type

\* two descriptors of different type with the smallest gap, 1, in two clusters
C13_Witness ==
  /\ pc = "clustered"
  /\ Len(all_ccs) = 2
  /\ all_ccs[1].type = "baseline"
  /\ all_ccs[2].type = "baseline_border"
  /\ matrix[1][2] = 100
  /\ matrix[2][1] = 100
  /\ labels[1] # labels[2]

----------------------------------------------------------------------------
(* The order of the descriptors (SpecMatrix) *)

\* the orders in which n descriptors can be listed
permutations(n) == {p \in [1..n -> 1..n] : \A i, j \in 1..n : i # j => p[i] # p[j]}

\* the list with the descriptor p[i] at position i
permuted(descs, p) == [i \in 1..Len(descs) |-> descs[p[i]]]

\* C14: the partition into clusters does not depend on the order of the
\* descriptors: for every permutation of the list, the matrix and DBSCAN of
\* the permuted list put two descriptors into one cluster exactly when those
\* of the list itself do.
C14_OrderIndependentClusters ==
  pc = "clustered" =>
    \A p \in permutations(Len(all_ccs)) :
      LET labs == DBSCAN(calculate_distance_matrix(permuted(all_ccs, p)))
      IN \A i, j \in 1..Len(all_ccs) :
           (labs[i] = labs[j]) <=> (labels[p[i]] = labels[p[j]])

====
